---- MODULE Spec2Model ----
(***************************************************************************)
(* Model of src/src.py: Splitter (k-fold partitioning and the rotation of  *)
(* the folds into train / validation / test roles), DatasetManager (the    *)
(* per-run target scaling and the drug featurization cache) and the       *)
(* MinMaxScaling target pipeline.                                          *)
(*                                                                         *)
(* Conventions.  A numpy array is a sequence; the VALUES it holds (row     *)
(* labels, fold numbers, permutation entries) are 0-based as in Python,   *)
(* so a[i] of the source is a[i + 1] here.  A DataFrame is the sequence of *)
(* its rows; a DataFrame returned by a selection is the set of the labels  *)
(* of the selected rows (the index is unique after reset_index).           *)
(* np.random.default_rng(seed).permutation(m) is a choice among all the   *)
(* permutations of 0..m-1: the model checks every seed at once.            *)
(***************************************************************************)
EXTENDS Integers, Sequences, FiniteSets, TLC

\* ---------------------------------------------------------------- bounds
MaxRows == 3
MaxCells == 2
MaxK == 3
MaxExcl == 1
MaxY == 2
MaxDrugs == 2
MaxDrugCalls == 3

\* seed = 3558, the default of Splitter.__init__
DefaultSeed == 3558

VARIABLES
    data,               \* Splitter.data: the table, rows [CELL_ID, Y]
    partition_column,   \* Splitter.partition_column ("None" or a column)
    k,                  \* Splitter.k
    seed,               \* Splitter.seed: a set of integers (one or a list)
    exclude_from_test,  \* Splitter.exclude_from_test
    elements,           \* Splitter.elements
    partitioned,        \* Splitter.partitioned
    attrs,              \* attributes assigned after __init__ only:
                        \*   "fitted", "splits", "test_folds", "val_folds"
    splits,             \* Splitter.splits      (meaningful if in attrs)
    test_folds,         \* Splitter.test_folds  (meaningful if in attrs)
    val_folds,          \* Splitter.val_folds   (meaningful if in attrs)
    pc,                 \* "idle", or "get_folds": inside the while loop
    result,             \* the last call and how it ended
    caller_exclude,     \* the exclude_from_test argument the caller gave
    tp_fitted,          \* target_processor.fitted exists (and is True)
    tp_minmax,          \* target_processor.minmax: <<>> or <<data_min, data_max>>
    smiles,             \* ppl.get_drugs(): the set of DRUG_ID identifiers
    producible,         \* identifiers the featurizer can represent
    cache_file,         \* the file at path_cache: <<>> (absent) or <<drug_dict>>
    featurizer_calls,   \* number of drug_featurizer(...) invocations
    drug_calls,         \* number of get_drugs() calls
    warned,             \* the identifiers named by the warning of the last call
    cold_start          \* no cache file existed when the program started

splitterVars == <<data, partition_column, k, seed, exclude_from_test, elements,
                  partitioned, attrs, splits, test_folds, val_folds, pc>>
targetVars == <<tp_fitted, tp_minmax>>
cacheVars == <<smiles, producible, cache_file, featurizer_calls, drug_calls, warned,
               cold_start>>
vars == <<splitterVars, result, caller_exclude, targetVars, cacheVars>>

\* ---------------------------------------------------------------- helpers
None == "None"

Range(s) == {s[i] : i \in 1..Len(s)}

\* np.arange(m)
arange(m) == [i \in 1..m |-> i - 1]

\* the values rng.permutation(m) can return
permutation(m) ==
    {p \in [1..m -> 0..(m - 1)] : \A i, j \in 1..m : p[i] = p[j] => i = j}

RECURSIVE Concat(_)
\* np.concatenate(list of arrays)
Concat(ss) == IF ss = <<>> THEN <<>> ELSE Head(ss) \o Concat(Tail(ss))

\* pandas.Series.unique(): the distinct values in order of first appearance
RECURSIVE unique(_)
unique(s) ==
    IF s = <<>> THEN <<>>
    ELSE LET front == unique(SubSeq(s, 1, Len(s) - 1))
             last == s[Len(s)]
         IN  IF last \in Range(front) THEN front ELSE Append(front, last)

\* np.array_split(ary, Nsections): section_sizes =
\*   [0] + extras * [Neach_section + 1] + (Nsections - extras) * [Neach_section]
SectionSizeBalancedLast(n, nsections, j) ==
    IF j > nsections - (n % nsections) THEN (n \div nsections) + 1 ELSE n \div nsections

SectionSize(n, nsections, j) ==
    IF j <= n % nsections THEN (n \div nsections) + 1 ELSE n \div nsections

RECURSIVE DivPoint(_, _, _)
\* div_points = cumsum(section_sizes); DivPoint(.., 0) is the leading 0
DivPoint(n, nsections, i) ==
    IF i = 0 THEN 0
    ELSE DivPoint(n, nsections, i - 1) + SectionSize(n, nsections, i)

array_split(ary, nsections) ==
    [i \in 1..nsections |->
        SubSeq(ary, DivPoint(Len(ary), nsections, i - 1) + 1,
                    DivPoint(Len(ary), nsections, i))]

\* ------------------------------------------------------------ Splitter
\* Splitter.__init__: self.elements
InitElements(d, col) ==
    IF col = None THEN arange(Len(d))
    ELSE unique([i \in 1..Len(d) |-> d[i].CELL_ID])

\* the tables the inputs are drawn from: n rows over g cell lines, the
\* targets going round 1..MaxY in steps of step
Tables(steps) ==
    {[i \in 1..n |-> [CELL_ID |-> (i - 1) % g, Y |-> (((i - 1) * step) % MaxY) + 1]] :
        n \in 1..MaxRows, g \in 1..MaxCells, step \in steps}

\* what a call left behind: its name, "ok" or the exception, its argument
\* and the value it returned
NoResult == [op |-> "none", status |-> "none", idx |-> 0, ret |-> <<>>]

Ok(op, idx, ret) == [op |-> op, status |-> "ok", idx |-> idx, ret |-> ret]
Raised(op, idx, exc) == [op |-> op, status |-> exc, idx |-> idx, ret |-> <<>>]
Running(op) == [op |-> op, status |-> "running", idx |-> 0, ret |-> <<>>]

NotPartitioned == "AssertionError: The data was not partitioned yet"
NotFitted == "AssertionError: You are trying to get splits before fitting the splitter"
AttributeError == "AttributeError"
ValueError == "ValueError"

\* rng.permutation(len(self.elements)) is drawn only when shuffling
Draws(shuffle) ==
    IF shuffle THEN permutation(Len(elements)) ELSE {arange(Len(elements))}

\* elements[perm] when shuffling, elements.copy() otherwise; then array_split
Partitions(shuffle, perm) ==
    LET shuffled == IF shuffle THEN [i \in 1..Len(elements) |-> elements[perm[i] + 1]]
                    ELSE elements
    IN  array_split(shuffled, k)

\* (val != test).all()
valid_partitionAny(val, test) == \E i \in 1..Len(test) : val[i] # test[i]

valid_partition(val, test) == \A i \in 1..Len(test) : val[i] # test[i]

\* self.data.loc[idx] / self.data.query("<column> in @idx"): labels of the rows
Rows(idx) ==
    IF partition_column = None THEN Range(idx)
    ELSE {i - 1 : i \in {j \in 1..Len(data) : data[j].CELL_ID \in Range(idx)}}

\* Splitter.__getitem__(idx).  self.fitted, when it exists, is True: the
\* assertion itself can never fail, only the attribute lookups can.
Getitem(idx) ==
    IF "fitted" \notin attrs THEN Raised("__getitem__", idx, AttributeError)
    ELSE IF "val_folds" \notin attrs THEN Raised("__getitem__", idx, AttributeError)
    ELSE LET train_folds == SelectSeq(arange(k),
                 LAMBDA i : i # val_folds[idx + 1] /\ i # test_folds[idx + 1])
         IN  IF train_folds = <<>>
             THEN Raised("__getitem__", idx, ValueError)  \* np.concatenate([])
             ELSE LET training_idx ==
                          Concat([j \in 1..Len(train_folds) |-> splits[train_folds[j] + 1]])
                      val_idx == splits[val_folds[idx + 1] + 1]
                      test_idx == SelectSeq(splits[test_folds[idx + 1] + 1],
                                            LAMBDA el : el \notin exclude_from_test)
                  IN  Ok("__getitem__", idx,
                         <<Rows(training_idx), Rows(val_idx), Rows(test_idx)>>)

\* Splitter.get_partitions(shuffle)
get_partitions(shuffle) ==
    /\ pc = "idle"
    /\ \E perm \in Draws(shuffle) :
          splits' = Partitions(shuffle, perm)
    /\ partitioned' = TRUE
    /\ attrs' = attrs \cup {"splits", "fitted"}
    /\ result' = Ok("get_partitions", 0, <<>>)
    /\ UNCHANGED <<data, partition_column, k, seed, exclude_from_test, elements,
                   test_folds, val_folds, pc, caller_exclude, targetVars, cacheVars>>

\* Splitter.get_folds(), up to the while loop
get_folds ==
    /\ pc = "idle"
    /\ IF partitioned
       THEN pc' = "get_folds" /\ result' = Running("get_folds")
       ELSE pc' = pc /\ result' = Raised("get_folds", 0, NotPartitioned)
    /\ UNCHANGED <<data, partition_column, k, seed, exclude_from_test, elements,
                   partitioned, attrs, splits, test_folds, val_folds,
                   caller_exclude, targetVars, cacheVars>>

\* one iteration of the while loop of get_folds: draw val, test it, and on
\* success leave the loop and store test_folds and val_folds
get_folds_loop ==
    /\ pc = "get_folds"
    /\ \E val \in permutation(k) :
          IF valid_partition(val, arange(k))
          THEN /\ test_folds' = arange(k)
               /\ val_folds' = val
               /\ attrs' = attrs \cup {"test_folds", "val_folds"}
               /\ pc' = "idle"
               /\ result' = Ok(result.op, 0, <<>>)
          ELSE UNCHANGED <<test_folds, val_folds, attrs, pc, result>>
    /\ UNCHANGED <<data, partition_column, k, seed, exclude_from_test, elements,
                   partitioned, splits, caller_exclude, targetVars, cacheVars>>

\* Splitter.fit(shuffle): get_partitions(shuffle), then get_folds() up to its loop
fit(shuffle) ==
    /\ pc = "idle"
    /\ \E perm \in Draws(shuffle) :
          splits' = Partitions(shuffle, perm)
    /\ partitioned' = TRUE
    /\ attrs' = attrs \cup {"splits", "fitted"}
    /\ pc' = "get_folds"
    /\ result' = Running("fit")
    /\ UNCHANGED <<data, partition_column, k, seed, exclude_from_test, elements,
                   test_folds, val_folds, caller_exclude, targetVars, cacheVars>>

\* splitter[idx] for a run index
getitem(idx) ==
    /\ pc = "idle"
    /\ result' = Getitem(idx)
    /\ UNCHANGED <<splitterVars, caller_exclude, targetVars, cacheVars>>

\* no drug was requested and no cache file is looked at
NoDrugs ==
    /\ smiles = {}
    /\ producible = {}
    /\ cache_file = <<>>
    /\ cold_start = TRUE
    /\ featurizer_calls = 0
    /\ drug_calls = 0
    /\ warned = {}

\* a program that only uses a Splitter: no target processor, no drugs
NoManager ==
    /\ tp_fitted = FALSE
    /\ tp_minmax = <<>>
    /\ NoDrugs

\* Splitter(data, k, partition_column, exclude_from_test = E)
Init ==
    /\ data \in Tables({0})
    /\ partition_column \in {None, "CELL_ID"}
    /\ k \in 1..MaxK
    /\ seed = {DefaultSeed}
    /\ exclude_from_test \in SUBSET (0..(MaxExcl - 1))
    /\ caller_exclude = exclude_from_test
    /\ elements = InitElements(data, partition_column)
    /\ partitioned = FALSE
    /\ attrs = {}
    /\ splits = <<>>
    /\ test_folds = <<>>
    /\ val_folds = <<>>
    /\ pc = "idle"
    /\ result = NoResult
    /\ NoManager

Next ==
    \/ \E shuffle \in BOOLEAN : get_partitions(shuffle)
    \/ get_folds
    \/ get_folds_loop
    \/ \E shuffle \in BOOLEAN : fit(shuffle)
    \/ \E idx \in 0..(k - 1) : getitem(idx)

Spec == Init /\ [][Next]_vars

\* ------------------------------------------------------ MinMaxScaling
\* target_range = (-1, 1), the default of MinMaxScaling.__init__
target_range == <<-1, 1>>

Min(S) == CHOOSE x \in S : \A y \in S : x <= y
Max(S) == CHOOSE x \in S : \A y \in S : x >= y

\* x["Y"] for a selection x of the table
TargetsOf(x) == {data[r + 1].Y : r \in x}

\* MinMaxScaling.fit(x), x not empty: the state of self.minmax afterwards,
\* <<data_min_, data_max_>>
MinMaxFitOnce(x) ==
    IF tp_fitted THEN tp_minmax ELSE <<Min(TargetsOf(x)), Max(TargetsOf(x))>>

MinMaxFit(x) == <<Min(TargetsOf(x)), Max(TargetsOf(x))>>

\* MinMaxScaler.transform of one value, as the exact fraction <<num, den>>:
\* (y - data_min) * (hi - lo) / data_range + lo, a zero data_range counting as 1
Scale(y, minmax) ==
    LET data_range == IF minmax[2] = minmax[1] THEN 1 ELSE minmax[2] - minmax[1]
    IN  <<(y - minmax[1]) * (target_range[2] - target_range[1]) + target_range[1] * data_range,
          data_range>>

\* MinMaxScaling.__call__(x): x.assign(Y = Y_t)
Transform(x, minmax) == {[row |-> r, Y |-> Scale(data[r + 1].Y, minmax)] : r \in x}

\* ------------------------------------------------------ DatasetManager
\* DatasetManager.get_partition(idx).  MinMaxScaler.fit and .transform
\* raise ValueError on a selection without rows; fit resets the scaler first.
get_partition(idx) ==
    /\ pc = "idle"
    /\ LET s == Getitem(idx)
           train == s.ret[1]
           val == s.ret[2]
           test == s.ret[3]
       IN  IF s.status # "ok"
           THEN /\ result' = Raised("get_partition", idx, s.status)
                /\ UNCHANGED targetVars
           ELSE IF train = {}
           THEN /\ result' = Raised("get_partition", idx, ValueError)
                /\ tp_minmax' = <<>>
                /\ UNCHANGED tp_fitted
           ELSE /\ tp_minmax' = MinMaxFit(train)
                /\ tp_fitted' = TRUE
                /\ result' =
                     IF test = {} \/ val = {}
                     THEN Raised("get_partition", idx, ValueError)
                     ELSE Ok("get_partition", idx,
                             <<Transform(train, tp_minmax'), Transform(test, tp_minmax'),
                               Transform(val, tp_minmax')>>)
    /\ UNCHANGED <<splitterVars, caller_exclude, cacheVars>>

\* os.path.exists(path_cache)
path_existsNever == FALSE

path_exists == cache_file # <<>>

\* DatasetManager.get_drugs().  The featurizer returns a representation for
\* the identifiers it can represent; the representation is the number of
\* the featurizer call that made it (0: made before this program started).
get_drugs ==
    /\ pc = "idle"
    /\ drug_calls < MaxDrugCalls
    /\ drug_calls' = drug_calls + 1
    /\ LET drug_dict == IF path_exists THEN cache_file[1]
                        ELSE [d \in producible |-> featurizer_calls + 1]
           featurized_drugs == DOMAIN drug_dict
           input_drugs == smiles
           diff_drugs == featurized_drugs \ input_drugs
       IN  /\ IF path_exists
              THEN UNCHANGED <<cache_file, featurizer_calls>>
              ELSE /\ cache_file' = <<drug_dict>>
                   /\ featurizer_calls' = featurizer_calls + 1
           /\ warned' = diff_drugs
           /\ result' = Ok("get_drugs", 0, <<drug_dict>>)
    /\ UNCHANGED <<splitterVars, caller_exclude, targetVars, smiles, producible, cold_start>>

\* DatasetManager.__init__ up to the while loop of splitter.fit():
\* Splitter(self.processed_data, k, partition_column, exclude_from_test) binds
\* its fourth argument to seed, and exclude_from_test keeps its default [].
ManagerInit(tables, ks, columns, exclusions) ==
    /\ data \in tables
    /\ partition_column \in columns
    /\ k \in ks
    /\ caller_exclude \in exclusions
    /\ seed = caller_exclude
    /\ exclude_from_test = {}
    /\ elements = InitElements(data, partition_column)
    /\ splits \in {Partitions(TRUE, perm) : perm \in permutation(Len(elements))}
    /\ partitioned = TRUE
    /\ attrs = {"splits", "fitted"}
    /\ test_folds = <<>>
    /\ val_folds = <<>>
    /\ pc = "get_folds"
    /\ result = Running("DatasetManager.__init__")
    /\ tp_fitted = FALSE
    /\ tp_minmax = <<>>

InitManager ==
    /\ ManagerInit(Tables(0..(MaxY - 1)), 1..MaxK, {None, "CELL_ID"}, SUBSET (0..(MaxExcl - 1)))
    /\ NoDrugs

NextManager ==
    \/ get_folds_loop
    \/ \E idx \in 0..(k - 1) : get_partition(idx)

SpecManager == InitManager /\ [][NextManager]_vars

\* a manager over one three-row table; the drugs, what the featurizer can
\* represent and the cache file an earlier program may have left are drawn
InitCache ==
    /\ ManagerInit({[i \in 1..3 |-> [CELL_ID |-> i - 1, Y |-> i]]}, {3}, {None}, {{}})
    /\ smiles \in SUBSET (0..(MaxDrugs - 1))
    /\ producible \in SUBSET smiles
    /\ cache_file \in {<<>>} \cup {<<[d \in S |-> 0]>> : S \in SUBSET (0..(MaxDrugs - 1))}
    /\ cold_start = (cache_file = <<>>)
    /\ featurizer_calls = 0
    /\ drug_calls = 0
    /\ warned = {}

NextCache ==
    \/ get_folds_loop
    \/ get_drugs

SpecCache == InitCache /\ [][NextCache]_vars

\* ------------------------------------------------------------- claims
\* the element of a row: its label, or its value in the partition column
ElementOf(r) == IF partition_column = None THEN r ELSE data[r + 1].CELL_ID

ElementsOf(x) == {ElementOf(r) : r \in x}

AllRows == {i - 1 : i \in 1..Len(data)}

\* get_partitions() and get_folds() have both completed
FitCompleted == partitioned /\ "val_folds" \in attrs /\ pc = "idle"

\* C1: every indexing of a fitted Splitter with 2 <= k <= number of elements
\* returns train, validation and test, pairwise disjoint by element, test
\* being fold r (less the exclusions), validation fold val[r], train the k-2
\* other folds, and the three covering every row when nothing is excluded.
C1_RolesPartition ==
    (result.op = "__getitem__" /\ FitCompleted /\ 2 <= k /\ k <= Len(elements)) =>
        /\ result.status = "ok"
        /\ LET r == result.idx
               train == result.ret[1]
               val == result.ret[2]
               test == result.ret[3]
               others == (0..(k - 1)) \ {r, val_folds[r + 1]}
           IN  /\ ElementsOf(train) \cap ElementsOf(val) = {}
               /\ ElementsOf(train) \cap ElementsOf(test) = {}
               /\ ElementsOf(val) \cap ElementsOf(test) = {}
               /\ ElementsOf(test) = Range(splits[r + 1]) \ exclude_from_test
               /\ ElementsOf(val) = Range(splits[val_folds[r + 1] + 1])
               /\ Cardinality(others) = k - 2
               /\ ElementsOf(train) = UNION {Range(splits[f + 1]) : f \in others}
               /\ \A row \in AllRows :
                     Cardinality({i \in 1..3 : ElementOf(row) \in ElementsOf(result.ret[i])}) <= 1
               /\ exclude_from_test = {} => train \cup val \cup test = AllRows

\* C2: no element the caller excluded from test is in the test subset a run
\* returns, from Splitter indexing (third) or from get_partition (the
\* transform of test, which it returns second).
C2_Exclusion ==
    /\ (result.op = "__getitem__" /\ result.status = "ok") =>
           ElementsOf(result.ret[3]) \cap caller_exclude = {}
    /\ (result.op = "get_partition" /\ result.status = "ok") =>
           ElementsOf({e.row : e \in result.ret[2]}) \cap caller_exclude = {}

\* C3: for k <= n the folds of get_partitions() hold every element exactly
\* once, and fold j (counted from 1) has n div k elements, plus one when
\* j <= n mod k: any two folds differ in size by at most 1.
C3_FoldsPartition ==
    ("splits" \in attrs /\ k <= Len(elements)) =>
        LET n == Len(elements)
        IN  /\ Len(splits) = k
            /\ \A e \in Range(elements) :
                  Cardinality({<<j, i>> \in (1..k) \X (1..n) :
                                  i <= Len(splits[j]) /\ splits[j][i] = e}) = 1
            /\ \A j \in 1..k : Range(splits[j]) \subseteq Range(elements)
            /\ \A j \in 1..k :
                  Len(splits[j]) = (n \div k) + (IF j <= n % k THEN 1 ELSE 0)
            /\ \A i, j \in 1..k : Len(splits[i]) - Len(splits[j]) <= 1

C3_Witness ==
    /\ "splits" \in attrs
    /\ k = 2
    /\ Len(elements) = 3
    /\ Len(splits[1]) = 2
    /\ Concat(splits) # elements

\* C4: once get_folds() has returned, test_folds is the identity, val_folds
\* is a permutation of 0..k-1 without a fixed point, and so every fold is the
\* test fold of one run, the validation fold of one run, never of the same.
C4_Derangement ==
    "val_folds" \in attrs =>
        /\ k >= 2
        /\ test_folds = arange(k)
        /\ Len(val_folds) = k
        /\ \A f \in 0..(k - 1) :
              /\ Cardinality({r \in 1..k : test_folds[r] = f}) = 1
              /\ Cardinality({r \in 1..k : val_folds[r] = f}) = 1
        /\ \A r \in 1..k : val_folds[r] # test_folds[r]

C4_Witness ==
    /\ "val_folds" \in attrs
    /\ k = 3
    /\ result = Ok("get_folds", 0, <<>>)

\* C5: the three subsets get_partition(r) returns are scaled with the
\* minimum and maximum of the targets of run r's train subset, whatever was
\* returned or fitted by the calls before.
C5_FitOnTrainOnly ==
    (result.op = "get_partition" /\ result.status = "ok") =>
        LET s == Getitem(result.idx)
            fitted_on_train == <<Min(TargetsOf(s.ret[1])), Max(TargetsOf(s.ret[1]))>>
            rows == s.ret[1] \cup s.ret[2] \cup s.ret[3]
        IN  /\ tp_fitted
            /\ tp_minmax = fitted_on_train
            /\ \A i \in 1..3 : \A e \in result.ret[i] :
                  e.Y = Scale(data[e.row + 1].Y, fitted_on_train)
            /\ UNION {{e.row : e \in result.ret[i]} : i \in 1..3} = rows

C5_Witness ==
    /\ result.op = "get_partition"
    /\ result.status = "ok"
    /\ \E e \in result.ret[1] : \E f \in result.ret[2] \cup result.ret[3] :
          data[e.row + 1].Y # data[f.row + 1].Y
    /\ result.idx = 1

\* C6: indexing returns subsets only after get_partitions() and get_folds()
\* have completed, and fails with the 'not fitted' assertion otherwise;
\* get_folds() before get_partitions() fails with 'not partitioned'.
C6_CallOrder ==
    /\ (result.op = "__getitem__" /\ result.status = "ok") => FitCompleted
    /\ (result.op = "__getitem__" /\ ~FitCompleted) => result.status = NotFitted
    /\ (result.op = "get_folds" /\ ~partitioned) => result.status = NotPartitioned

\* C7: with k = 1 or k greater than the number of elements, fit() ends by
\* signalling an error: it neither reaches the search for val_folds nor
\* returns, and no indexing succeeds afterwards.
C7_FailFast ==
    (k = 1 \/ k > Len(elements)) =>
        /\ result.op = "fit" => result.status \notin {"running", "ok"}
        /\ result.op = "__getitem__" => result.status # "ok"

\* C8: starting without a cache file, the featurizer is called once, by
\* the first get_drugs(), which stores what it made; every call returns
\* that stored mapping.
C8_CacheIdempotence ==
    (cold_start /\ drug_calls >= 1) =>
        /\ featurizer_calls = 1
        /\ cache_file = <<[d \in producible |-> 1]>>
        /\ result.op = "get_drugs" => result.ret = cache_file

C8_Witness ==
    /\ cold_start
    /\ drug_calls = 2
    /\ producible # {}
    /\ result.op = "get_drugs"

\* C9: every get_drugs() call warns exactly about the requested identifiers
\* that the mapping it returns lacks (no warning when there is none).
C9_Reconciliation ==
    result.op = "get_drugs" => warned = smiles \ DOMAIN result.ret[1]

\* C10: get_partition(r) returns (train, validation, test) in the order of
\* Splitter indexing.
C10_RoleOrder ==
    (result.op = "get_partition" /\ result.status = "ok") =>
        LET s == Getitem(result.idx)
        IN  \A i \in 1..3 : {e.row : e \in result.ret[i]} = s.ret[i]

====
